---- MODULE Spec2Model ----
(***************************************************************************)
(* Ledger and reconciliation engine of the RBN travel-expense application  *)
(* (src/app.py): the SQLite tables users / trips / expenses / deposits,    *)
(* the request handlers that write them, and the two read-side helpers     *)
(* calc_user_totals and fetch_user_statement. Spec runs the handlers one   *)
(* request at a time; SpecRead, SpecStatus and SpecDelete run a read, the  *)
(* status changes and the user deletions statement by statement beside     *)
(* other requests.                                                         *)
(*                                                                         *)
(* Conventions of the model                                                *)
(*  - a table is the set of its rows, a row is a record of the columns the *)
(*    handlers read or write; free-text columns that no handler branches   *)
(*    on (name, email, title, category, description, note, receipt_path,   *)
(*    created_at) are left out, the trip title is represented by the trip  *)
(*    id;                                                                  *)
(*  - dates are ISO 'YYYY-MM-DD' strings in the program and SQLite         *)
(*    compares them as text; ISO dates order as text exactly as the days   *)
(*    they name order, so a date is modelled by its day number;            *)
(*  - amounts are REAL in the program; they are modelled as integers       *)
(*    (whole currency units), negative values included because no handler  *)
(*    validates the sign;                                                  *)
(*  - an optional argument is a sequence of length 0 (None) or 1; the      *)
(*    empty string '' of a query parameter is day number 0, below every    *)
(*    date as '' is below every string.                                    *)
(***************************************************************************)
EXTENDS Integers, Sequences, FiniteSets, TLC

VARIABLES users, next_user_id, trips, expenses, deposits,
          deleted_users, API_TOKENS,
          reader, setters, last_commit, deleters

\* Requests in flight when several server processes share the database
\* file: a calc_user_totals call between its statements (reader), the
\* admin_set_expense_status requests (setters; last_commit remembers the
\* UPDATE that committed last) and the admin_delete_user requests
\* (deleters). Every statement is its own transaction (get_db opens the
\* connection with isolation_level=None), so a request is one step per
\* statement. They stay idle when requests run one at a time.
requests == <<reader, setters, last_commit, deleters>>

vars == <<users, next_user_id, trips, expenses, deposits,
          deleted_users, API_TOKENS, reader, setters, last_commit, deleters>>

ledger == <<users, next_user_id, trips, expenses, deposits>>

----------------------------------------------------------------------------
(* Bounds of the model *)

MaxUsers == 2

MaxTrips == 1

MaxRows == 2

MaxDate == 2

MaxAmount == 1

MaxTokens == 1

MaxInFlight == 2

----------------------------------------------------------------------------
(* Input domains of the requests *)

None == <<>>

Some(x) == <<x>>

Roles == {"admin", "employee"}

Statuses == {"aprovado", "rejeitado", "pendente"}

\* <status> path segment of /admin/despesa/<id>/<status>: any string
StatusInputs == Statuses \cup {"outro"}

\* user_id form fields are int(...) of whatever the client sent
UserIdInputs == 1..MaxUsers

\* trip_id form fields: the existing trips and one id that names no trip
TripIdInputs == 1..(MaxTrips + 1)

ExpenseIdInputs == 1..(MaxRows + 1)

Dates == 1..MaxDate

\* the empty string sent as start= or end=
EmptyStr == 0

\* days per month of the model's calendar
MonthLen == 2

\* dt.date.today(): any day of the months the rows fall in or of the next one
Todays == 1..(MaxDate + MonthLen)

\* scope query parameter; absent means 'month'
Scopes == {"month", "all", "outro"}

\* float(request.form.get('amount')): any sign
Amounts == {-1} \cup (1..MaxAmount)

NoSession == [user_id |-> 0, role |-> "none"]

\* login: session['user_id'], session['role'] = the row's id and role. The
\* session is a signed cookie kept by the client and nothing on the server
\* revokes it, so a request may carry the cookie of any user that was ever
\* inserted (deleted_users remembers the rows admin_delete_user removed).
login(u) == [user_id |-> u.id, role |-> u.role]

SessionInputs == {NoSession} \cup {login(u) : u \in users \cup deleted_users}

TokenInputs == 0..MaxTokens

\* the requests of one kind that may be in flight at once
Slots == 1..MaxInFlight

\* seen: the totals of every ledger state since the call began; wrote: a
\* write committed since the call began; result / rows: what the last
\* calc_user_totals / fetch_user_statement call returned
IdleReader == [pc |-> "idle", user_id |-> 0, rej |-> FALSE, total_dep |-> 0,
               seen |-> {}, wrote |-> FALSE, result |-> None, rows |-> None]

IdleSetter == [pc |-> "idle", expense_id |-> 0, status |-> ""]

IdleDeleter == [pc |-> "idle", user_id |-> 0]

----------------------------------------------------------------------------
(* Tables *)

\* init_db: the four tables are created empty and the default admin is
\* inserted with AUTOINCREMENT id 1
Init ==
    /\ users = {[id |-> 1, role |-> "admin"]}
    /\ next_user_id = 2
    /\ trips = {}
    /\ expenses = {}
    /\ deposits = {}
    /\ deleted_users = {}
    /\ API_TOKENS = {}
    /\ reader = IdleReader
    /\ setters = [r \in Slots |-> IdleSetter]
    /\ last_commit = None
    /\ deleters = [r \in Slots |-> IdleDeleter]

\* login_required without the role comparison: any logged-in session passes
login_required_any_role(sess, role) ==
    IF sess = NoSession THEN "login" ELSE "ok"

\* login_required(role): "login" = redirect to the login page, "403" =
\* abort(403), "ok" = the wrapped handler runs
login_required(sess, role) ==
    IF sess = NoSession THEN "login"
    ELSE IF role # None /\ sess.role # role[1] THEN "403"
    ELSE "ok"

Denied(gate) ==
    UNCHANGED <<ledger, deleted_users, API_TOKENS>>

----------------------------------------------------------------------------
(* SQL helpers *)

RECURSIVE SumAmounts(_)
SumAmounts(rows) ==
    IF rows = {} THEN 0
    ELSE LET r == CHOOSE x \in rows : TRUE
         IN r.amount + SumAmounts(rows \ {r})

\* SUM(amount): NULL over no rows
SqlSum(rows) == IF rows = {} THEN None ELSE Some(SumAmounts(rows))

\* COALESCE(x, dflt)
Coalesce(x, dflt) == IF x = None THEN dflt ELSE x[1]

\* the Python guard `if start and end`
\* Python truth value of an optional string: None and '' are false
Truthy(x) == x # None /\ x # Some(EmptyStr)

\* HasPeriod taking '' for a given bound: only None counts as missing
HasPeriod_not_none(start, end) == start # None /\ end # None

HasPeriod(start, end) == Truthy(start) /\ Truthy(end)

\* date BETWEEN ? AND ?  (appended to the WHERE only under HasPeriod)
PeriodClause(date, start, end) ==
    IF HasPeriod(start, end) THEN start[1] <= date /\ date <= end[1] ELSE TRUE

\* RejectedClause written as status='aprovado': pending expenses are
\* filtered out together with the rejected ones
RejectedClause_only_approved(status, include_rejected) ==
    IF include_rejected THEN TRUE ELSE status = "aprovado"

\* status!='rejeitado'  (appended to the expenses WHERE unless include_rejected)
RejectedClause(status, include_rejected) ==
    IF include_rejected THEN TRUE ELSE status # "rejeitado"

\* WhereDeposits with the period test widened to the linked trip: a deposit
\* also passes when an expense on its trip is dated inside the period
WhereDeposits_by_trip(user_id, start, end) ==
    {d \in deposits :
        /\ d.user_id = user_id
        /\ \/ PeriodClause(d.date, start, end)
           \/ \E e \in expenses : d.trip_id = Some(e.trip_id)
                                    /\ PeriodClause(e.date, start, end)}

\* WhereDeposits with the user_id parameter left unbound
WhereDeposits_any_user(user_id, start, end) ==
    {d \in deposits : PeriodClause(d.date, start, end)}

\* WHERE of the deposits SELECT, shared text of both helpers
WhereDeposits(user_id, start, end) ==
    {d \in deposits : d.user_id = user_id /\ PeriodClause(d.date, start, end)}

\* WhereExpenses with the user_id parameter left unbound
WhereExpenses_any_user(user_id, start, end, include_rejected) ==
    {e \in expenses : /\ PeriodClause(e.date, start, end)
                      /\ RejectedClause(e.status, include_rejected)}

\* WHERE of the expenses SELECT, shared text of both helpers
WhereExpenses(user_id, start, end, include_rejected) ==
    {e \in expenses : /\ e.user_id = user_id
                      /\ PeriodClause(e.date, start, end)
                      /\ RejectedClause(e.status, include_rejected)}

\* calc_user_totals with the deposit period clause appended only when
\* rejected expenses are excluded
calc_user_totals_flagged_deposits(user_id, start, end, include_rejected) ==
    LET dep_rows == IF include_rejected THEN WhereDeposits(user_id, None, None)
                    ELSE WhereDeposits(user_id, start, end)
        total_dep == Coalesce(SqlSum(dep_rows), 0)
        total_exp == Coalesce(SqlSum(WhereExpenses(user_id, start, end, include_rejected)), 0)
    IN [deposits |-> total_dep,
        expenses |-> total_exp,
        balance  |-> total_dep - total_exp]

calc_user_totals(user_id, start, end, include_rejected) ==
    LET total_dep == Coalesce(SqlSum(WhereDeposits(user_id, start, end)), 0)
        total_exp == Coalesce(SqlSum(WhereExpenses(user_id, start, end, include_rejected)), 0)
    IN [deposits |-> total_dep,
        expenses |-> total_exp,
        balance  |-> total_dep - total_exp]

\* COALESCE(t.title,'—'): the title of the joined trip (modelled by its id),
\* None standing for the placeholder
TitleOrDash(trip_id) ==
    IF trip_id # None /\ (\E t \in trips : t.id = trip_id[1]) THEN trip_id ELSE None

\* first SELECT of the UNION ALL: deposits LEFT JOIN trips (every deposit row
\* survives the join); src is the rowid, kept to tell equal rows apart
DepositSelect(user_id, start, end) ==
    {[src |-> <<"d", d.id>>, date |-> d.date, type |-> "Depósito",
      trip |-> TitleOrDash(d.trip_id), status |-> "", amount |-> d.amount]
        : d \in WhereDeposits(user_id, start, end)}

\* second SELECT: expenses JOIN trips (inner join: one row per trip whose id
\* is the expense's trip_id, so none when no such trip exists)
ExpenseSelect(user_id, start, end, include_rejected) ==
    {[src |-> <<"e", e.id>>, date |-> e.date, type |-> "Despesa",
      trip |-> TitleOrDash(Some(e.trip_id)), status |-> e.status, amount |-> 0 - e.amount]
        : e \in {x \in WhereExpenses(user_id, start, end, include_rejected) :
                    \E t2 \in trips : t2.id = x.trip_id}}

\* UTF-8 bytes of the two type literals
Utf8(type) ==
    IF type = "Depósito" THEN <<68, 101, 112, 195, 179, 115, 105, 116, 111>>
    ELSE <<68, 101, 115, 112, 101, 115, 97>>

Min(a, b) == IF a <= b THEN a ELSE b

\* SQLite's BINARY collation: memcmp of the common prefix, then the length
BinaryLess(a, b) ==
    \/ \E i \in 1..Min(Len(a), Len(b)) :
          /\ a[i] < b[i]
          /\ \A j \in 1..(i - 1) : a[j] = b[j]
    \/ /\ Len(a) < Len(b)
       /\ \A j \in 1..Len(a) : a[j] = b[j]

\* ORDER BY date ASC, type DESC: r must come strictly before s
OrderBefore(r, s) ==
    \/ r.date < s.date
    \/ r.date = s.date /\ BinaryLess(Utf8(s.type), Utf8(r.type))

\* dict(r) for r in rows: the columns of the result
RowDict(r) == [date |-> r.date, type |-> r.type, trip |-> r.trip,
               status |-> r.status, amount |-> r.amount]

\* Every list the query may return: the rows of the UNION ALL in an order
\* that ORDER BY allows (rows with equal keys come in an unspecified order).
fetch_user_statement(user_id, start, end, include_rejected) ==
    LET rows == DepositSelect(user_id, start, end)
                  \cup ExpenseSelect(user_id, start, end, include_rejected)
        n == Cardinality(rows)
        orders == {p \in [1..n -> rows] :
                     /\ \A i, j \in 1..n : i # j => p[i] # p[j]
                     /\ \A i, j \in 1..n : i < j => ~OrderBefore(p[j], p[i])}
    IN {[i \in 1..n |-> RowDict(p[i])] : p \in orders}

RECURSIVE SumList(_)
SumList(rows) ==
    IF rows = <<>> THEN 0 ELSE Head(rows).amount + SumList(Tail(rows))

\* dt.date.today().replace(day=1)
FirstOfMonth(today) == today - ((today - 1) % MonthLen)

\* profile_filters that keeps the request's start and end under scope=all
profile_filters_keeps_range(scope, start, end, today) ==
    <<IF ~Truthy(start) /\ scope # "all" THEN Some(FirstOfMonth(today)) ELSE start,
      IF ~Truthy(end) /\ scope # "all" THEN Some(today) ELSE end>>

\* the start and end that profile hands to the two helpers
profile_filters(scope, start, end, today) ==
    IF scope = "all" THEN <<None, None>>
    ELSE <<IF ~Truthy(start) THEN Some(FirstOfMonth(today)) ELSE start,
           IF ~Truthy(end) THEN Some(today) ELSE end>>

\* the start and end that profile_statement_csv hands to fetch_user_statement
profile_statement_csv_filters(scope, start, end, today) ==
    IF scope # "all"
    THEN <<IF ~Truthy(start) THEN Some(FirstOfMonth(today)) ELSE start,
           IF ~Truthy(end) THEN Some(today) ELSE end>>
    ELSE <<None, None>>

\* GET /perfil: current_user() is None when the session's user was removed
\* and user['id'] then raises TypeError (500)
profile(sess, scope, rej, start, end, today) ==
    LET gate == login_required(sess, None)
        p == profile_filters(scope, start, end, today)
    IN IF gate # "ok" THEN [code |-> "302"]
       ELSE IF ~\E u \in users : u.id = sess.user_id THEN [code |-> "500"]
       ELSE [code |-> "200",
             totals |-> calc_user_totals(sess.user_id, p[1], p[2], rej),
             statement |-> fetch_user_statement(sess.user_id, p[1], p[2], rej)]

\* GET /perfil/extrato.csv
profile_statement_csv(sess, scope, rej, start, end, today) ==
    LET gate == login_required(sess, None)
        p == profile_statement_csv_filters(scope, start, end, today)
    IN IF gate # "ok" THEN [code |-> "302"]
       ELSE IF ~\E u \in users : u.id = sess.user_id THEN [code |-> "500"]
       ELSE [code |-> "200",
             rows |-> fetch_user_statement(sess.user_id, p[1], p[2], rej)]

----------------------------------------------------------------------------
(* Request handlers *)

\* POST /admin/usuarios, formname=create; dup_email: the e-mail is already
\* taken and the INSERT raises sqlite3.IntegrityError
admin_users(sess, role, dup_email) ==
    LET gate == login_required(sess, Some("admin"))
    IN IF gate # "ok" THEN Denied(gate)
       ELSE IF dup_email
       THEN UNCHANGED <<ledger, deleted_users, API_TOKENS>>
       ELSE /\ next_user_id <= MaxUsers
            /\ users' = users \cup {[id |-> next_user_id, role |-> role]}
            /\ next_user_id' = next_user_id + 1
            /\ UNCHANGED <<trips, expenses, deposits, deleted_users, API_TOKENS>>

\* admin_delete_user with the last-admin test written as admins < 1
admin_delete_user_off_by_one(sess, user_id) ==
    LET gate == login_required(sess, Some("admin"))
        user == {u \in users : u.id = user_id}
        admins == Cardinality({u \in users : u.role = "admin"})
    IN IF gate # "ok" THEN Denied(gate)
       ELSE IF user_id = sess.user_id
       THEN UNCHANGED <<ledger, deleted_users, API_TOKENS>>
       ELSE IF user = {}
       THEN UNCHANGED <<ledger, deleted_users, API_TOKENS>>
       ELSE IF (\E u \in user : u.role = "admin") /\ admins < 1
       THEN UNCHANGED <<ledger, deleted_users, API_TOKENS>>
       ELSE /\ users' = users \ user
            /\ deleted_users' = deleted_users \cup user
            /\ UNCHANGED <<next_user_id, trips, expenses, deposits, API_TOKENS>>

\* POST /admin/usuarios/<user_id>/delete
admin_delete_user(sess, user_id) ==
    LET gate == login_required(sess, Some("admin"))
        user == {u \in users : u.id = user_id}
        admins == Cardinality({u \in users : u.role = "admin"})
    IN IF gate # "ok" THEN Denied(gate)
       ELSE IF user_id = sess.user_id
       THEN UNCHANGED <<ledger, deleted_users, API_TOKENS>>
       ELSE IF user = {}
       THEN UNCHANGED <<ledger, deleted_users, API_TOKENS>>
       ELSE IF (\E u \in user : u.role = "admin") /\ admins <= 1
       THEN UNCHANGED <<ledger, deleted_users, API_TOKENS>>
       ELSE /\ users' = users \ user
            /\ deleted_users' = deleted_users \cup user
            /\ UNCHANGED <<next_user_id, trips, expenses, deposits, API_TOKENS>>

\* POST /viagens/nova: user_id is inserted as sent (no lookup, and SQLite
\* does not enforce the FOREIGN KEY clauses without PRAGMA foreign_keys)
trip_new(sess, user_id) ==
    LET gate == login_required(sess, Some("admin"))
    IN IF gate # "ok" THEN Denied(gate)
       ELSE /\ Cardinality(trips) < MaxTrips
            /\ trips' = trips \cup {[id |-> Cardinality(trips) + 1, user_id |-> user_id]}
            /\ UNCHANGED <<users, next_user_id, expenses, deposits, deleted_users, API_TOKENS>>

\* admin_trip_reassign that also hands the trip's expenses to the new owner
admin_trip_reassign_cascade(sess, trip_id, new_user_id) ==
    LET gate == login_required(sess, Some("admin"))
    IN IF gate # "ok" THEN Denied(gate)
       ELSE IF ~(\E u \in users : u.id = new_user_id)
       THEN UNCHANGED <<ledger, deleted_users, API_TOKENS>>
       ELSE /\ trips' = {IF t.id = trip_id THEN [t EXCEPT !.user_id = new_user_id] ELSE t
                            : t \in trips}
            /\ expenses' = {IF e.trip_id = trip_id THEN [e EXCEPT !.user_id = new_user_id] ELSE e
                               : e \in expenses}
            /\ UNCHANGED <<users, next_user_id, deposits, deleted_users, API_TOKENS>>

\* POST /admin/viagens/<trip_id>/reassign
admin_trip_reassign(sess, trip_id, new_user_id) ==
    LET gate == login_required(sess, Some("admin"))
    IN IF gate # "ok" THEN Denied(gate)
       ELSE IF ~(\E u \in users : u.id = new_user_id)
       THEN UNCHANGED <<ledger, deleted_users, API_TOKENS>>
       ELSE /\ trips' = {IF t.id = trip_id THEN [t EXCEPT !.user_id = new_user_id] ELSE t
                            : t \in trips}
            /\ UNCHANGED <<users, next_user_id, expenses, deposits, deleted_users, API_TOKENS>>

\* InsertExpense storing the row as already approved
InsertExpense_approved(trip_id, user_id, date, amount) ==
    /\ Cardinality(expenses) + Cardinality(deposits) < MaxRows
    /\ expenses' = expenses \cup
          {[id |-> Cardinality(expenses) + 1, trip_id |-> trip_id, user_id |-> user_id,
            date |-> date, amount |-> amount, status |-> "aprovado"]}

\* INSERT INTO expenses(...,status,...) VALUES(...,'pendente',...)
InsertExpense(trip_id, user_id, date, amount) ==
    /\ Cardinality(expenses) + Cardinality(deposits) < MaxRows
    /\ expenses' = expenses \cup
          {[id |-> Cardinality(expenses) + 1, trip_id |-> trip_id, user_id |-> user_id,
            date |-> date, amount |-> amount, status |-> "pendente"]}

\* POST /despesas/nova: trip_id is int(form['trip_id']), not looked up
expense_new(sess, trip_id, date, amount) ==
    LET gate == login_required(sess, Some("employee"))
        my_trips == {t \in trips : t.user_id = sess.user_id}
    IN IF gate # "ok" THEN Denied(gate)
       ELSE IF my_trips = {}
       THEN UNCHANGED <<ledger, deleted_users, API_TOKENS>>
       ELSE /\ InsertExpense(trip_id, sess.user_id, date, amount)
            /\ UNCHANGED <<users, next_user_id, trips, deposits, deleted_users, API_TOKENS>>

\* POST /admin/depositos: trip_id is None when the field is empty
admin_deposits(sess, user_id, trip_id, amount, date) ==
    LET gate == login_required(sess, Some("admin"))
    IN IF gate # "ok" THEN Denied(gate)
       ELSE /\ Cardinality(expenses) + Cardinality(deposits) < MaxRows
            /\ deposits' = deposits \cup
                  {[id |-> Cardinality(deposits) + 1, user_id |-> user_id,
                    trip_id |-> trip_id, amount |-> amount, date |-> date]}
            /\ UNCHANGED <<users, next_user_id, trips, expenses, deleted_users, API_TOKENS>>

\* admin_set_expense_status without the check of the status value
admin_set_expense_status_unvalidated(sess, expense_id, status) ==
    LET gate == login_required(sess, Some("admin"))
    IN IF gate # "ok" THEN Denied(gate)
       ELSE /\ expenses' = {IF e.id = expense_id THEN [e EXCEPT !.status = status] ELSE e
                               : e \in expenses}
            /\ UNCHANGED <<users, next_user_id, trips, deposits, deleted_users, API_TOKENS>>

\* admin_set_expense_status that toggles: asking for the status the expense
\* already has puts it back to 'pendente'
admin_set_expense_status_toggle(sess, expense_id, status) ==
    LET gate == login_required(sess, Some("admin"))
    IN IF gate # "ok" THEN Denied(gate)
       ELSE IF status \notin {"aprovado", "rejeitado", "pendente"}
       THEN UNCHANGED <<ledger, deleted_users, API_TOKENS>>
       ELSE /\ expenses' = {IF e.id = expense_id
                            THEN [e EXCEPT !.status = IF e.status = status THEN "pendente"
                                                      ELSE status]
                            ELSE e : e \in expenses}
            /\ UNCHANGED <<users, next_user_id, trips, deposits, deleted_users, API_TOKENS>>

\* admin_set_expense_status whose UPDATE has lost its WHERE id=?
admin_set_expense_status_all_rows(sess, expense_id, status) ==
    LET gate == login_required(sess, Some("admin"))
    IN IF gate # "ok" THEN Denied(gate)
       ELSE IF status \notin {"aprovado", "rejeitado", "pendente"}
       THEN UNCHANGED <<ledger, deleted_users, API_TOKENS>>
       ELSE /\ expenses' = {[e EXCEPT !.status = status] : e \in expenses}
            /\ UNCHANGED <<users, next_user_id, trips, deposits, deleted_users, API_TOKENS>>

\* admin_set_expense_status whose UPDATE only touches pending expenses
\* (approved and rejected become terminal)
admin_set_expense_status_terminal(sess, expense_id, status) ==
    LET gate == login_required(sess, Some("admin"))
    IN IF gate # "ok" THEN Denied(gate)
       ELSE IF status \notin {"aprovado", "rejeitado", "pendente"}
       THEN UNCHANGED <<ledger, deleted_users, API_TOKENS>>
       ELSE /\ expenses' = {IF e.id = expense_id /\ e.status = "pendente"
                            THEN [e EXCEPT !.status = status] ELSE e : e \in expenses}
            /\ UNCHANGED <<users, next_user_id, trips, deposits, deleted_users, API_TOKENS>>

\* GET /admin/despesa/<expense_id>/<status>
admin_set_expense_status(sess, expense_id, status) ==
    LET gate == login_required(sess, Some("admin"))
    IN IF gate # "ok" THEN Denied(gate)
       ELSE IF status \notin {"aprovado", "rejeitado", "pendente"}
       THEN UNCHANGED <<ledger, deleted_users, API_TOKENS>>
       ELSE /\ expenses' = {IF e.id = expense_id THEN [e EXCEPT !.status = status] ELSE e
                               : e \in expenses}
            /\ UNCHANGED <<users, next_user_id, trips, deposits, deleted_users, API_TOKENS>>

\* What admin_set_expense_status answers: the redirect to the login page,
\* abort(403), abort(400), or flash('Despesa marcada como ...', 'success')
\* with the redirect to the dashboard. No branch looks the expense up.
admin_set_expense_status_response(sess, expense_id, status) ==
    LET gate == login_required(sess, Some("admin"))
    IN IF gate = "login" THEN [code |-> "302", to |-> "login", flash |-> "warning"]
       ELSE IF gate = "403" THEN [code |-> "403", to |-> "", flash |-> ""]
       ELSE IF status \notin {"aprovado", "rejeitado", "pendente"}
       THEN [code |-> "400", to |-> "", flash |-> ""]
       ELSE [code |-> "302", to |-> "admin_dashboard", flash |-> "success"]

\* TokenUid that also requires the token's user to be stored still
TokenUid_live_user(token) ==
    IF \E k \in API_TOKENS : k.token = token /\ \E u \in users : u.id = k.user_id
    THEN Some((CHOOSE k \in API_TOKENS : k.token = token).user_id)
    ELSE None

\* API_TOKENS.get(token): the uid of an issued token, None otherwise
TokenUid(token) ==
    IF \E k \in API_TOKENS : k.token = token
    THEN Some((CHOOSE k \in API_TOKENS : k.token = token).user_id)
    ELSE None

\* POST /api/login
api_login(uid, pw_ok) ==
    LET found == {u \in users : u.id = uid}
    IN IF found # {} /\ pw_ok
       THEN /\ Cardinality(API_TOKENS) < MaxTokens
            /\ API_TOKENS' = API_TOKENS \cup
                  {[token |-> Cardinality(API_TOKENS) + 1, user_id |-> uid]}
            /\ UNCHANGED <<ledger, deleted_users>>
       ELSE UNCHANGED <<ledger, deleted_users, API_TOKENS>>

\* api_auth_required: 401 (missing_token / invalid_token) or the wrapped
\* handler runs with request.user_id
api_auth_required(token) == IF TokenUid(token) = None THEN "401" ELSE "ok"

\* POST /api/expenses behind api_auth_required; token 0 stands for a request
\* without a Bearer header or with a token that was never issued
api_expenses_create(token, trip_id, date, amount) ==
    LET uid == TokenUid(token)
    IN IF uid = None
       THEN UNCHANGED <<ledger, deleted_users, API_TOKENS>>
       ELSE /\ InsertExpense(trip_id, uid[1], date, amount)
            /\ UNCHANGED <<users, next_user_id, trips, deposits, deleted_users, API_TOKENS>>

\* one request at a time: each handler runs from its first statement to its
\* last with nothing in between
Next ==
    \/ \E sess \in SessionInputs, role \in Roles, dup \in BOOLEAN :
          admin_users(sess, role, dup) /\ UNCHANGED requests
    \/ \E sess \in SessionInputs, uid \in UserIdInputs :
          admin_delete_user(sess, uid) /\ UNCHANGED requests
    \/ \E sess \in SessionInputs, uid \in UserIdInputs :
          trip_new(sess, uid) /\ UNCHANGED requests
    \/ \E sess \in SessionInputs, tid \in TripIdInputs, uid \in UserIdInputs :
          admin_trip_reassign(sess, tid, uid) /\ UNCHANGED requests
    \/ \E sess \in SessionInputs, tid \in TripIdInputs, d \in Dates, a \in Amounts :
          expense_new(sess, tid, d, a) /\ UNCHANGED requests
    \/ \E sess \in SessionInputs, uid \in UserIdInputs,
          tid \in {None} \cup {Some(t) : t \in 1..MaxTrips}, a \in Amounts, d \in Dates :
          admin_deposits(sess, uid, tid, a, d) /\ UNCHANGED requests
    \/ \E sess \in SessionInputs, eid \in ExpenseIdInputs, st \in StatusInputs :
          admin_set_expense_status(sess, eid, st) /\ UNCHANGED requests
    \/ \E uid \in UserIdInputs, pw_ok \in BOOLEAN :
          api_login(uid, pw_ok) /\ UNCHANGED requests
    \/ \E tok \in TokenInputs, tid \in TripIdInputs, d \in Dates, a \in Amounts :
          api_expenses_create(tok, tid, d, a) /\ UNCHANGED requests

Spec == Init /\ [][Next]_vars

----------------------------------------------------------------------------
(* Reads running beside the writers *)

\* calc_user_totals(user_id, include_rejected=rej) is entered: get_db()
calc_connect(user_id, rej) ==
    /\ reader.pc = "idle"
    /\ reader' = [IdleReader EXCEPT !.pc = "connected", !.user_id = user_id, !.rej = rej,
                                    !.seen = {calc_user_totals(user_id, None, None, rej)}]
    /\ UNCHANGED <<ledger, deleted_users, API_TOKENS, setters, last_commit, deleters>>

\* total_dep = conn.execute(q_dep, par_dep).fetchone()['s']
calc_q_dep ==
    /\ reader.pc = "connected"
    /\ reader' = [reader EXCEPT
                     !.pc = "q_dep",
                     !.total_dep = Coalesce(SqlSum(WhereDeposits(reader.user_id, None, None)), 0)]
    /\ UNCHANGED <<ledger, deleted_users, API_TOKENS, setters, last_commit, deleters>>

\* calc_q_exp that also purges the rejected expenses it leaves out
calc_q_exp_purging ==
    /\ reader.pc = "q_dep"
    /\ LET total_exp == Coalesce(SqlSum(WhereExpenses(reader.user_id, None, None,
                                                      reader.rej)), 0)
       IN reader' = [IdleReader EXCEPT
                        !.user_id = reader.user_id, !.rej = reader.rej,
                        !.wrote = reader.wrote,
                        !.result = Some([deposits |-> reader.total_dep,
                                         expenses |-> total_exp,
                                         balance  |-> reader.total_dep - total_exp])]
    /\ expenses' = {e \in expenses : e.status # "rejeitado"}
    /\ UNCHANGED <<users, next_user_id, trips, deposits, deleted_users, API_TOKENS,
                   setters, last_commit, deleters>>

\* total_exp = conn.execute(q_exp, par_exp).fetchone()['s']; conn.close();
\* return the dict
calc_q_exp ==
    /\ reader.pc = "q_dep"
    /\ LET total_exp == Coalesce(SqlSum(WhereExpenses(reader.user_id, None, None,
                                                      reader.rej)), 0)
       IN reader' = [IdleReader EXCEPT
                        !.user_id = reader.user_id, !.rej = reader.rej,
                        !.wrote = reader.wrote,
                        !.result = Some([deposits |-> reader.total_dep,
                                         expenses |-> total_exp,
                                         balance  |-> reader.total_dep - total_exp])]
    /\ UNCHANGED <<ledger, deleted_users, API_TOKENS, setters, last_commit, deleters>>

\* a whole fetch_user_statement call: its single SELECT reads one snapshot
fetch_call(user_id, rej) ==
    /\ reader.pc = "idle"
    /\ \E list \in fetch_user_statement(user_id, None, None, rej) :
          reader' = [IdleReader EXCEPT !.user_id = user_id, !.rej = rej, !.rows = Some(list)]
    /\ UNCHANGED <<ledger, deleted_users, API_TOKENS, setters, last_commit, deleters>>

\* a write beside the reader: while a calc_user_totals call is in flight the
\* totals of the new ledger state are remembered for the call to be compared
\* with; a returned result is forgotten (the caller has it)
Observed ==
    /\ \E u \in {reader.user_id}, rej \in {reader.rej} :
          reader' = IF reader.pc = "idle" THEN IdleReader
                    ELSE [reader EXCEPT
                             !.seen = @ \cup {calc_user_totals(u, None, None, rej)'},
                             !.wrote = @ \/ ledger' # ledger]
    /\ UNCHANGED <<setters, last_commit, deleters>>

\* the reads of a stored user beside the writers of the rows they sum and
\* list: deposit insertions, expense insertions through the API and status
\* changes
NextRead ==
    \/ \E sess \in SessionInputs, uid \in UserIdInputs,
          tid \in {None} \cup {Some(t) : t \in 1..MaxTrips}, a \in Amounts, d \in Dates :
          admin_deposits(sess, uid, tid, a, d) /\ Observed
    \/ \E sess \in SessionInputs, eid \in ExpenseIdInputs, st \in StatusInputs :
          admin_set_expense_status(sess, eid, st) /\ Observed
    \/ \E uid \in UserIdInputs, pw_ok \in BOOLEAN :
          api_login(uid, pw_ok) /\ Observed
    \/ \E tok \in TokenInputs, tid \in TripIdInputs, d \in Dates, a \in Amounts :
          api_expenses_create(tok, tid, d, a) /\ Observed
    \/ \E u \in users, rej \in BOOLEAN : calc_connect(u.id, rej)
    \/ calc_q_dep
    \/ calc_q_exp
    \/ \E u \in users, rej \in BOOLEAN : fetch_call(u.id, rej)

SpecRead == Init /\ [][NextRead]_vars

----------------------------------------------------------------------------
(* Status changes running beside each other *)

\* admin_set_expense_status up to its UPDATE: login_required('admin') and
\* the check of the status value; a request that fails either never reaches
\* the database
set_status_begin(r, sess, expense_id, status) ==
    /\ setters[r].pc = "idle"
    /\ login_required(sess, Some("admin")) = "ok"
    /\ status \in Statuses
    /\ setters' = [setters EXCEPT ![r] = [pc |-> "update", expense_id |-> expense_id,
                                          status |-> status]]
    /\ UNCHANGED <<ledger, deleted_users, API_TOKENS, reader, last_commit, deleters>>

\* set_status_update whose UPDATE spares a decided expense (first write
\* wins): ... WHERE id=? AND status='pendente'
set_status_update_first_wins(r) ==
    /\ setters[r].pc = "update"
    /\ expenses' = {IF e.id = setters[r].expense_id /\ e.status = "pendente"
                    THEN [e EXCEPT !.status = setters[r].status] ELSE e : e \in expenses}
    /\ last_commit' = IF \E e \in expenses : e.id = setters[r].expense_id
                      THEN Some([expense_id |-> setters[r].expense_id,
                                 status |-> setters[r].status])
                      ELSE last_commit
    /\ setters' = [setters EXCEPT ![r] = IdleSetter]
    /\ UNCHANGED <<users, next_user_id, trips, deposits, deleted_users, API_TOKENS,
                   reader, deleters>>

\* conn.execute("UPDATE expenses SET status=? WHERE id=?"); conn.commit():
\* one statement, one transaction. last_commit keeps the UPDATE that changed
\* a row last.
set_status_update(r) ==
    /\ setters[r].pc = "update"
    /\ expenses' = {IF e.id = setters[r].expense_id
                    THEN [e EXCEPT !.status = setters[r].status] ELSE e : e \in expenses}
    /\ last_commit' = IF \E e \in expenses : e.id = setters[r].expense_id
                      THEN Some([expense_id |-> setters[r].expense_id,
                                 status |-> setters[r].status])
                      ELSE last_commit
    /\ setters' = [setters EXCEPT ![r] = IdleSetter]
    /\ UNCHANGED <<users, next_user_id, trips, deposits, deleted_users, API_TOKENS,
                   reader, deleters>>

\* two status changes in flight beside the insertions of expenses and
\* deposits
NextStatus ==
    \/ \E sess \in SessionInputs, uid \in UserIdInputs,
          tid \in {None} \cup {Some(t) : t \in 1..MaxTrips}, a \in Amounts, d \in Dates :
          admin_deposits(sess, uid, tid, a, d) /\ UNCHANGED requests
    \/ \E uid \in UserIdInputs, pw_ok \in BOOLEAN :
          api_login(uid, pw_ok) /\ UNCHANGED requests
    \/ \E tok \in TokenInputs, tid \in TripIdInputs, d \in Dates, a \in Amounts :
          api_expenses_create(tok, tid, d, a) /\ UNCHANGED requests
    \/ \E r \in Slots, sess \in SessionInputs, eid \in ExpenseIdInputs, st \in StatusInputs :
          set_status_begin(r, sess, eid, st)
    \/ \E r \in Slots : set_status_update(r)

SpecStatus == Init /\ [][NextStatus]_vars

----------------------------------------------------------------------------
(* User deletions running beside each other *)

\* admin_delete_user up to its first statement: login_required('admin') and
\* the comparison with the session's own user
delete_begin(r, sess, user_id) ==
    /\ deleters[r].pc = "idle"
    /\ login_required(sess, Some("admin")) = "ok"
    /\ user_id # sess.user_id
    /\ deleters' = [deleters EXCEPT ![r] = [pc |-> "select_user", user_id |-> user_id]]
    /\ UNCHANGED <<ledger, deleted_users, API_TOKENS, reader, setters, last_commit>>

\* user = SELECT id, role FROM users WHERE id=?
delete_select_user(r) ==
    /\ deleters[r].pc = "select_user"
    /\ LET user == {u \in users : u.id = deleters[r].user_id}
       IN deleters' = [deleters EXCEPT ![r] =
                          IF user = {} THEN IdleDeleter
                          ELSE IF \E u \in user : u.role = "admin"
                          THEN [@ EXCEPT !.pc = "count"]
                          ELSE [@ EXCEPT !.pc = "delete"]]
    /\ UNCHANGED <<ledger, deleted_users, API_TOKENS, reader, setters, last_commit>>

\* admins = SELECT COUNT(*) c FROM users WHERE role='admin'
delete_count(r) ==
    /\ deleters[r].pc = "count"
    /\ LET admins == Cardinality({u \in users : u.role = "admin"})
       IN deleters' = [deleters EXCEPT ![r] =
                          IF admins <= 1 THEN IdleDeleter ELSE [@ EXCEPT !.pc = "delete"]]
    /\ UNCHANGED <<ledger, deleted_users, API_TOKENS, reader, setters, last_commit>>

\* DELETE FROM users WHERE id=?; conn.commit()
delete_commit(r) ==
    /\ deleters[r].pc = "delete"
    /\ LET user == {u \in users : u.id = deleters[r].user_id}
       IN /\ users' = users \ user
          /\ deleted_users' = deleted_users \cup user
    /\ deleters' = [deleters EXCEPT ![r] = IdleDeleter]
    /\ UNCHANGED <<next_user_id, trips, expenses, deposits, API_TOKENS,
                   reader, setters, last_commit>>

\* two deletions in flight beside the creation of users
NextDelete ==
    \/ \E sess \in SessionInputs, role \in Roles, dup \in BOOLEAN :
          admin_users(sess, role, dup) /\ UNCHANGED requests
    \/ \E r \in Slots, sess \in SessionInputs, uid \in UserIdInputs :
          delete_begin(r, sess, uid)
    \/ \E r \in Slots : delete_select_user(r)
    \/ \E r \in Slots : delete_count(r)
    \/ \E r \in Slots : delete_commit(r)

SpecDelete == Init /\ [][NextDelete]_vars

----------------------------------------------------------------------------
(* Arguments of the read helpers *)

ReadUserIds == 1..(MaxUsers + 1)

OptDates == {None} \cup {Some(d) : d \in Dates}

\* start / end as a request may send them: absent, empty or a date
ArgDates == OptDates \cup {Some(EmptyStr)}

\* sessions of users that are still stored
LiveSessions == {sess \in SessionInputs : \E u \in users : u.id = sess.user_id}

AdminSessions == {sess \in SessionInputs : sess.role = "admin"}

\* start <= date <= end, for a period that is given
Within(date, start, end) == start[1] <= date /\ date <= end[1]

UserDeposits(u) == {d \in deposits : d.user_id = u}

UserExpenses(u) == {e \in expenses : e.user_id = u}

\* the expenses of u that the inclusion policy keeps
PolicyExpenses(u, rej) == {e \in UserExpenses(u) : rej \/ e.status # "rejeitado"}

RowsOfType(list, type) == {i \in DOMAIN list : list[i].type = type}

\* how often each deposit row occurs in a statement
DepositBag(list) ==
    [r \in {list[i] : i \in RowsOfType(list, "Depósito")} |->
        Cardinality({i \in DOMAIN list : list[i] = r})]

----------------------------------------------------------------------------
(* Claims *)

\* C1: balance equivalence - for every user, period and include_rejected, the
\* amounts of the rows of fetch_user_statement sum to the balance of
\* calc_user_totals called with the same arguments.
BalanceEquivalence ==
    \A u \in ReadUserIds, start \in OptDates, end \in OptDates, rej \in BOOLEAN :
        \A list \in fetch_user_statement(u, start, end, rej) :
            SumList(list) = calc_user_totals(u, start, end, rej).balance

\* C2: ordering - the statement is sorted by date ascending and, among rows of
\* the same date, no expense row comes before a deposit row.
StatementOrdering ==
    \A u \in ReadUserIds, start \in OptDates, end \in OptDates, rej \in BOOLEAN :
        \A list \in fetch_user_statement(u, start, end, rej) :
            \A i, j \in DOMAIN list :
                i < j =>
                    /\ list[i].date <= list[j].date
                    /\ ~(/\ list[i].date = list[j].date
                         /\ list[i].type = "Despesa"
                         /\ list[j].type = "Depósito")

\* C3: sign invariant - every deposit row of a statement has amount >= 0 and
\* every expense row has amount <= 0, whatever the status.
SignInvariant ==
    \A u \in ReadUserIds, start \in OptDates, end \in OptDates, rej \in BOOLEAN :
        \A list \in fetch_user_statement(u, start, end, rej) :
            \A i \in DOMAIN list :
                /\ list[i].type = "Depósito" => list[i].amount >= 0
                /\ list[i].type = "Despesa" => list[i].amount <= 0

\* C4: rejection exclusion - without the flag the expense total is the sum of
\* the user's in-period expenses that are not rejected and the statement has
\* no rejected row; with the flag the rejected expenses are added to the total
\* and each of them appears as a row.
RejectionExclusion ==
    \A u \in ReadUserIds, start \in OptDates, end \in OptDates :
        LET inPeriod == {e \in UserExpenses(u) :
                            HasPeriod(start, end) => Within(e.date, start, end)}
            kept == {e \in inPeriod : e.status # "rejeitado"}
            rejected == {e \in inPeriod : e.status = "rejeitado"}
        IN /\ calc_user_totals(u, start, end, FALSE).expenses = SumAmounts(kept)
           /\ calc_user_totals(u, start, end, TRUE).expenses
                 = SumAmounts(kept) + SumAmounts(rejected)
           /\ \A list \in fetch_user_statement(u, start, end, FALSE) :
                 \A i \in DOMAIN list : list[i].status # "rejeitado"
           /\ \A list \in fetch_user_statement(u, start, end, TRUE) :
                 Cardinality({i \in DOMAIN list : list[i].status = "rejeitado"})
                    = Cardinality(rejected)

\* C5: include_rejected never affects deposits - the deposit total and the
\* deposit rows of the statement are the same with the flag and without it.
FlagNeverAffectsDeposits ==
    \A u \in ReadUserIds, start \in OptDates, end \in OptDates :
        /\ calc_user_totals(u, start, end, FALSE).deposits
              = calc_user_totals(u, start, end, TRUE).deposits
        /\ \A lf \in fetch_user_statement(u, start, end, FALSE),
              lt \in fetch_user_statement(u, start, end, TRUE) :
                 DepositBag(lf) = DepositBag(lt)

\* C5 witness: a user has a deposit and a rejected expense that the flag
\* brings into the statement
FlagNeverAffectsDepositsWitness ==
    \E u \in ReadUserIds :
        /\ UserDeposits(u) # {}
        /\ \E e \in UserExpenses(u) : e.status = "rejeitado"
        /\ fetch_user_statement(u, None, None, FALSE)
              # fetch_user_statement(u, None, None, TRUE)

\* C6: period boundary - with a period [start,end] both helpers keep every
\* deposit and every policy-admitted expense of the user dated from start to
\* end, both ends included, and nothing dated outside.
PeriodBoundaryInclusive ==
    \A u \in ReadUserIds, start \in Dates, end \in Dates, rej \in BOOLEAN :
        LET deps == {d \in UserDeposits(u) : start <= d.date /\ d.date <= end}
            exps == {e \in PolicyExpenses(u, rej) : start <= e.date /\ e.date <= end}
            totals == calc_user_totals(u, Some(start), Some(end), rej)
        IN /\ totals.deposits = SumAmounts(deps)
           /\ totals.expenses = SumAmounts(exps)
           /\ \A list \in fetch_user_statement(u, Some(start), Some(end), rej) :
                 /\ Cardinality(RowsOfType(list, "Depósito")) = Cardinality(deps)
                 /\ Cardinality(RowsOfType(list, "Despesa")) = Cardinality(exps)
                 /\ \A i \in DOMAIN list : start <= list[i].date /\ list[i].date <= end

\* C7: the period filter looks at each record's own date only - a deposit or
\* an expense dated outside [start,end] is in no statement row and in no
\* total, whatever trip it is linked to and whatever else is on that trip.
PeriodUsesOwnDate ==
    \A u \in ReadUserIds, start \in Dates, end \in Dates, rej \in BOOLEAN :
        LET totals == calc_user_totals(u, Some(start), Some(end), rej)
        IN /\ totals.deposits
                = SumAmounts({d \in UserDeposits(u) : start <= d.date /\ d.date <= end})
           /\ totals.expenses
                = SumAmounts({e \in PolicyExpenses(u, rej) : start <= e.date /\ e.date <= end})
           /\ \A list \in fetch_user_statement(u, Some(start), Some(end), rej) :
                 /\ \A i \in DOMAIN list : start <= list[i].date /\ list[i].date <= end
                 /\ Cardinality(RowsOfType(list, "Depósito"))
                       <= Cardinality({d \in UserDeposits(u) :
                                          start <= d.date /\ d.date <= end})
                 /\ Cardinality(RowsOfType(list, "Despesa"))
                       <= Cardinality({e \in PolicyExpenses(u, rej) :
                                          start <= e.date /\ e.date <= end})

\* C7 witness: a deposit dated outside a period is linked to an existing trip
\* that has an expense of the same user dated inside the period
PeriodUsesOwnDateWitness ==
    \E d \in deposits, e \in expenses, t \in trips, start \in Dates, end \in Dates :
        /\ d.trip_id = Some(t.id) /\ e.trip_id = t.id
        /\ d.user_id = e.user_id
        /\ start <= e.date /\ e.date <= end
        /\ ~(start <= d.date /\ d.date <= end)
        /\ calc_user_totals(d.user_id, Some(start), Some(end), TRUE).deposits = 0
        /\ calc_user_totals(d.user_id, Some(start), Some(end), TRUE).expenses # 0

\* C8: empty result, not error - when no deposit and no expense of the user id
\* matches the filter, the statement is the empty list and the totals are 0.
EmptyResultNotError ==
    \A u \in ReadUserIds, start \in OptDates, end \in OptDates, rej \in BOOLEAN :
        LET matchD == {d \in UserDeposits(u) :
                          HasPeriod(start, end) => Within(d.date, start, end)}
            matchE == {e \in PolicyExpenses(u, rej) :
                          HasPeriod(start, end) => Within(e.date, start, end)}
        IN (matchD = {} /\ matchE = {}) =>
              /\ fetch_user_statement(u, start, end, rej) = {<<>>}
              /\ calc_user_totals(u, start, end, rej)
                    = [deposits |-> 0, expenses |-> 0, balance |-> 0]

\* C8 witness: the ledger holds a rejected expense of a user whose default
\* statement is nevertheless empty, and a user id that no row mentions
EmptyResultNotErrorWitness ==
    /\ \E e \in expenses :
          /\ e.status = "rejeitado"
          /\ UserDeposits(e.user_id) = {}
          /\ fetch_user_statement(e.user_id, None, None, FALSE) = {<<>>}
    /\ \E u \in ReadUserIds :
          /\ ~(\E x \in users : x.id = u)
          /\ UserExpenses(u) = {} /\ UserDeposits(u) = {}

\* C9: the approval state machine has no terminal state and no transition
\* guard - the status of every expense is one of the three values; from every
\* state an admin request can set any existing expense to any of the three,
\* it is answered with the success redirect, and after it the expense has the
\* requested status.
ApprovalStateMachine ==
    /\ [](\A e \in expenses :
            /\ e.status \in Statuses
            /\ \A sess \in AdminSessions, t \in Statuses :
                  /\ admin_set_expense_status_response(sess, e.id, t)
                        = [code |-> "302", to |-> "admin_dashboard", flash |-> "success"]
                  /\ ENABLED (/\ admin_set_expense_status(sess, e.id, t)
                              /\ UNCHANGED requests
                              /\ [e EXCEPT !.status = t] \in expenses'))
    /\ [][\A sess \in AdminSessions, e \in expenses, t \in Statuses :
            admin_set_expense_status(sess, e.id, t) =>
                \E x \in expenses' : x = [e EXCEPT !.status = t]]_vars

\* C9 witness: an expense has left the status it was created with
ApprovalStateMachineWitness ==
    /\ \E e \in expenses : e.status = "rejeitado"
    /\ \E e \in expenses : e.status = "aprovado"

\* C10: setting the status of an expense id that does not exist is answered
\* with a not-found error, and the ledger is left unchanged.
MissingExpenseIsNotFound ==
    /\ [](\A sess \in AdminSessions, eid \in ExpenseIdInputs, t \in Statuses :
            (expenses # {} /\ ~(\E e \in expenses : e.id = eid)) =>
                admin_set_expense_status_response(sess, eid, t).code = "404")
    /\ [][\A sess \in AdminSessions, eid \in ExpenseIdInputs, t \in Statuses :
            (admin_set_expense_status(sess, eid, t) /\ ~(\E e \in expenses : e.id = eid))
                => UNCHANGED ledger]_vars


SetStatusOk == [code |-> "302", to |-> "admin_dashboard", flash |-> "success"]

\* C11: a status value outside the three is answered with 400 before any
\* write - the request changes no expense row.
InvalidStatusRejected ==
    /\ [](\A sess \in AdminSessions, eid \in ExpenseIdInputs,
             st \in StatusInputs \ Statuses :
                admin_set_expense_status_response(sess, eid, st).code = "400")
    /\ [][expenses' # expenses =>
             \A sess \in AdminSessions, eid \in ExpenseIdInputs,
                st \in StatusInputs \ Statuses :
                   ~admin_set_expense_status(sess, eid, st)]_vars

\* C11 witness: an admin asks for an unknown status on an expense that has
\* already been through a status change
InvalidStatusRejectedWitness ==
    \E e \in expenses, sess \in AdminSessions :
        /\ e.status # "pendente"
        /\ admin_set_expense_status_response(sess, e.id, "outro").code = "400"

\* C12: status changes are admin-only - a request with a non-admin session is
\* answered 403, one with no session is sent to the login page, neither
\* changes an expense, and every step that changes the status of an expense
\* is an admin_set_expense_status request carrying an admin session.
StatusChangeAdminOnly ==
    /\ [](\A sess \in SessionInputs \ AdminSessions, eid \in ExpenseIdInputs,
             st \in StatusInputs :
                admin_set_expense_status_response(sess, eid, st)
                   = IF sess = NoSession
                     THEN [code |-> "302", to |-> "login", flash |-> "warning"]
                     ELSE [code |-> "403", to |-> "", flash |-> ""])
    /\ [][expenses' # expenses =>
             /\ \A sess \in SessionInputs \ AdminSessions, eid \in ExpenseIdInputs,
                   st \in StatusInputs :
                      ~admin_set_expense_status(sess, eid, st)
             /\ (\E e \in expenses, x \in expenses' : x.id = e.id /\ x.status # e.status)
                   => \E sess \in AdminSessions, eid \in ExpenseIdInputs, st \in Statuses :
                         admin_set_expense_status(sess, eid, st)]_vars

\* C12 witness: an employee session exists next to an expense whose status an
\* admin has changed
StatusChangeAdminOnlyWitness ==
    \E sess \in SessionInputs, e \in expenses :
        /\ sess.role = "employee"
        /\ e.status # "pendente"
        /\ admin_set_expense_status_response(sess, e.id, "pendente").code = "403"

\* C13: idempotent transition - once an expense has status t, a further
\* admin_set_expense_status(id, t) is answered with success and leaves the
\* whole state as it was.
IdempotentTransition ==
    /\ [](\A sess \in AdminSessions, e \in expenses :
            /\ admin_set_expense_status_response(sess, e.id, e.status) = SetStatusOk
            /\ ENABLED (admin_set_expense_status(sess, e.id, e.status)
                          /\ UNCHANGED vars))
    /\ [][vars' = vars \/
           \A sess \in AdminSessions, e \in expenses :
              ~admin_set_expense_status(sess, e.id, e.status)]_vars

\* C13 witness: an expense holds a status that a first call has set
IdempotentTransitionWitness ==
    \E e \in expenses : e.status = "aprovado"

\* C14: frame of a status change - a successful admin_set_expense_status(id, t)
\* changes the status field of the expense with that id and nothing else:
\* its other fields, every other expense, all deposits, trips and users stay.
StatusChangeFrame ==
    [][vars' = vars \/
       \A sess \in AdminSessions, eid \in ExpenseIdInputs, t \in Statuses :
          admin_set_expense_status(sess, eid, t) =>
             /\ UNCHANGED <<users, next_user_id, trips, deposits, deleted_users, API_TOKENS>>
             /\ expenses' = {IF e.id = eid
                             THEN [id |-> e.id, trip_id |-> e.trip_id, user_id |-> e.user_id,
                                   date |-> e.date, amount |-> e.amount, status |-> t]
                             ELSE e : e \in expenses}
             /\ \A e \in expenses : e.id # eid => e \in expenses'
             /\ Cardinality(expenses') = Cardinality(expenses)]_vars

\* C14 witness: one expense has been moved to another status while a second
\* expense still has the status it was created with
StatusChangeFrameWitness ==
    \E e1 \in expenses, e2 \in expenses :
        e1.id # e2.id /\ e1.status = "rejeitado" /\ e2.status = "pendente"

\* the expense e has a row in the expenses SELECT of the statement
Listed(e, start, end, rej) ==
    \E r \in ExpenseSelect(e.user_id, start, end, rej) : r.src = <<"e", e.id>>

\* sum of the non-rejected in-period expenses of e's user other than e
OthersCounted(e, start, end) ==
    SumAmounts({x \in UserExpenses(e.user_id) :
                   /\ x.id # e.id
                   /\ x.status # "rejeitado"
                   /\ (HasPeriod(start, end) => Within(x.date, start, end))})

Inserted == {e \in expenses' : ~\E x \in expenses : x.id = e.id}

\* C16: every expense is created with status 'pendente', through the web
\* form and through the API alike.
CreatedPending ==
    [][expenses' = expenses \/ \A e \in Inserted : e.status = "pendente"]_vars

\* C16 witness: an expense of an admin (only the API inserts for an admin)
\* and an expense of a user who holds no API token (only the web form
\* inserts for such a user), both still pending
CreatedPendingWitness ==
    \E e1 \in expenses, e2 \in expenses :
        /\ \E u \in users : u.id = e1.user_id /\ u.role = "admin"
        /\ \E k \in API_TOKENS : k.user_id = e1.user_id
        /\ ~\E k \in API_TOKENS : k.user_id = e2.user_id
        /\ e1.status = "pendente" /\ e2.status = "pendente"

\* C17: ownership at creation - every expense inserted by expense_new or
\* api_expenses_create names a trip that exists and whose user_id is the
\* expense's user_id at the moment of insertion.
OwnershipAtCreation ==
    [][expenses' = expenses \/
       \A e \in Inserted :
          \E t \in trips : t.id = e.trip_id /\ t.user_id = e.user_id]_vars

\* C18: trip reassignment changes only trips.user_id of the named trip; no
\* expense or deposit row changes, every user's totals and statement stay
\* as they were, and a reassignment to a missing user changes nothing.
ReassignOnlyMovesTrip ==
    [][vars' = vars \/
       \A sess \in AdminSessions, tid \in TripIdInputs, uid \in UserIdInputs :
          admin_trip_reassign(sess, tid, uid) =>
             /\ \E u \in users : u.id = uid
             /\ UNCHANGED <<users, next_user_id, expenses, deposits>>
             /\ trips' = {IF t.id = tid THEN [id |-> t.id, user_id |-> uid] ELSE t : t \in trips}
             /\ \A u \in ReadUserIds, rej \in BOOLEAN :
                   /\ calc_user_totals(u, None, None, rej)'
                         = calc_user_totals(u, None, None, rej)
                   /\ fetch_user_statement(u, None, None, rej)'
                         = fetch_user_statement(u, None, None, rej)
             /\ \A e \in expenses' :
                   e.trip_id = tid /\ e.user_id # uid =>
                      /\ Listed(e, None, None, TRUE)'
                      /\ \A r \in ExpenseSelect(uid, None, None, TRUE)' : r.src # <<"e", e.id>>]_vars

\* C18 witness: with no API token issued, an expense recorded on a trip that
\* now belongs to another user (the web form only accepts an expense from a
\* user who owns a trip, so the trip was reassigned after the expense)
ReassignOnlyMovesTripWitness ==
    /\ API_TOKENS = {}
    /\ \E e \in expenses, t \in trips :
          /\ t.id = e.trip_id
          /\ t.user_id # e.user_id
          /\ Listed(e, None, None, TRUE)
          /\ calc_user_totals(e.user_id, None, None, TRUE).expenses >= e.amount

\* C19: admin_delete_user leaves users unchanged when the target is the
\* session's own user or the only admin, and every reachable state has at
\* least one user with role 'admin'.
DeletionGuard ==
    /\ [](\E u \in users : u.role = "admin")
    /\ [][users' = users \/
          \A sess \in AdminSessions, uid \in UserIdInputs :
             \/ uid = sess.user_id
             \/ /\ \E u \in users : u.id = uid /\ u.role = "admin"
                /\ Cardinality({u \in users : u.role = "admin"}) = 1
             => ~admin_delete_user(sess, uid)]_vars

\* C19 witness: a removed admin whose session cookie is still accepted, and
\* exactly one admin left for it to target
DeletionGuardWitness ==
    /\ Cardinality({u \in users : u.role = "admin"}) = 1
    /\ \E sess \in AdminSessions, u \in users :
          /\ u.role = "admin"
          /\ sess.user_id # u.id
          /\ \E d \in deleted_users : d.id = sess.user_id /\ d.role = "admin"

\* C20: amounts are positive - every stored expense and deposit has
\* amount > 0.
AmountsPositive ==
    \A r \in expenses \cup deposits : r.amount > 0

\* the answer the claim expects for a malformed period
ValidationError == [error |-> "ValidationError"]

\* C21: a period whose end is before its start is a validation error -
\* calc_user_totals and fetch_user_statement report an error for such a
\* range instead of returning a result.
EndBeforeStartIsError ==
    \A u \in ReadUserIds, start \in Dates, end \in Dates, rej \in BOOLEAN :
        end < start =>
           /\ calc_user_totals(u, Some(start), Some(end), rej) = ValidationError
           /\ \A list \in fetch_user_statement(u, Some(start), Some(end), rej) :
                 list = <<ValidationError>>

\* the bound a request's start / end stands for when scope is not 'all'
BoundOr(x, dflt) == IF x = None \/ x = Some(EmptyStr) THEN dflt ELSE x[1]

\* C22: default period and all-time sentinel - in profile and
\* profile_statement_csv, when scope is not 'all' a missing start is the
\* first day of the current month and a missing end is today, and the
\* engine is called with these bounds; when scope is 'all' the engine is
\* called with no period and filters no date, whatever start / end were sent.
DefaultPeriodAndAllTime ==
    /\ \A scope \in Scopes, start \in ArgDates, end \in ArgDates, today \in Todays :
          LET passed == IF scope = "all" THEN <<None, None>>
                        ELSE <<Some(BoundOr(start, FirstOfMonth(today))),
                               Some(BoundOr(end, today))>>
          IN /\ profile_filters(scope, start, end, today) = passed
             /\ profile_statement_csv_filters(scope, start, end, today) = passed
    /\ \A sess \in LiveSessions, rej \in BOOLEAN, today \in Todays :
          LET u == sess.user_id
              lo == FirstOfMonth(today)
              month == profile(sess, "month", rej, None, Some(EmptyStr), today)
              all == profile(sess, "all", rej, Some(MaxDate), Some(1), today)
          IN /\ month.totals.deposits
                   = SumAmounts({d \in UserDeposits(u) : lo <= d.date /\ d.date <= today})
             /\ month.totals.expenses
                   = SumAmounts({e \in PolicyExpenses(u, rej) : lo <= e.date /\ e.date <= today})
             /\ month.statement = fetch_user_statement(u, Some(lo), Some(today), rej)
             /\ profile_statement_csv(sess, "month", rej, Some(EmptyStr), None, today).rows
                   = month.statement
             /\ all.totals.deposits = SumAmounts(UserDeposits(u))
             /\ all.totals.expenses = SumAmounts(PolicyExpenses(u, rej))
             /\ all.statement = fetch_user_statement(u, None, None, rej)
             /\ profile_statement_csv(sess, "all", rej, Some(MaxDate), Some(1), today).rows
                   = all.statement

\* C22 witness: a user with a deposit before the current month - the default
\* period leaves it out, scope=all shows it although the request carried a
\* start and an end that exclude it
DefaultPeriodAndAllTimeWitness ==
    \E sess \in LiveSessions, d \in deposits :
        /\ d.user_id = sess.user_id
        /\ d.date = 1
        /\ profile(sess, "month", FALSE, None, Some(EmptyStr), MonthLen + 1).statement = {<<>>}
        /\ profile(sess, "all", FALSE, Some(2), Some(2), MonthLen + 1).totals.deposits = d.amount

\* C26: statement completeness - for every user, period and inclusion
\* policy, fetch_user_statement returns exactly one row per matching deposit
\* and exactly one row per matching expense of that user, also when an
\* expense's trip_id names no existing trip.
StatementCompleteness ==
    \A u \in ReadUserIds, start \in OptDates, end \in OptDates, rej \in BOOLEAN :
        LET inPeriod(r) == HasPeriod(start, end) => Within(r.date, start, end)
        IN \A list \in fetch_user_statement(u, start, end, rej) :
              /\ Cardinality(RowsOfType(list, "Depósito"))
                    = Cardinality({d \in UserDeposits(u) : inPeriod(d)})
              /\ Cardinality(RowsOfType(list, "Despesa"))
                    = Cardinality({e \in PolicyExpenses(u, rej) : inPeriod(e)})

\* the periods the isolation check reads with: none, and one day
IsolationPeriods == {<<None, None>>, <<Some(1), Some(1)>>}

Missing == {None, Some(EmptyStr)}

\* C29: partial period is no period - when exactly one of start / end is
\* given, calc_user_totals and fetch_user_statement filter no date, so both
\* return their all-time results for that user and inclusion policy.
PartialPeriodIsNoPeriod ==
    \A u \in ReadUserIds, rej \in BOOLEAN, d \in Dates, m \in Missing :
        /\ calc_user_totals(u, Some(d), m, rej) = calc_user_totals(u, None, None, rej)
        /\ calc_user_totals(u, m, Some(d), rej) = calc_user_totals(u, None, None, rej)
        /\ fetch_user_statement(u, Some(d), m, rej) = fetch_user_statement(u, None, None, rej)
        /\ fetch_user_statement(u, m, Some(d), rej) = fetch_user_statement(u, None, None, rej)
        /\ calc_user_totals(u, m, Some(d), rej).deposits = SumAmounts(UserDeposits(u))
        /\ calc_user_totals(u, Some(d), m, rej).expenses = SumAmounts(PolicyExpenses(u, rej))

\* C29 witness: a deposit dated after the only bound given is still counted
\* and listed
PartialPeriodIsNoPeriodWitness ==
    \E x \in deposits :
        /\ x.date = MaxDate
        /\ calc_user_totals(x.user_id, Some(EmptyStr), Some(1), FALSE).deposits = x.amount
        /\ \A list \in fetch_user_statement(x.user_id, None, Some(1), FALSE) : Len(list) = 1

\* C30: API token lifetime - API_TOKENS only grows; a token issued for user
\* u authenticates as u in every later state, also after u was deleted; a
\* request without a token or with a token never issued gets 401 and
\* changes nothing.
TokenLifetime ==
    /\ [][API_TOKENS \subseteq API_TOKENS']_vars
    /\ [][\A k \in API_TOKENS :
             /\ TokenUid(k.token)' = Some(k.user_id)
             /\ api_auth_required(k.token)' = "ok"]_vars
    /\ [](\A k \in API_TOKENS :
             Cardinality(expenses) + Cardinality(deposits) < MaxRows =>
                ENABLED (/\ api_expenses_create(k.token, 1, 1, 1)
                         /\ UNCHANGED requests
                         /\ \E e \in expenses' : e \notin expenses /\ e.user_id = k.user_id))
    /\ [](\A tok \in TokenInputs :
             (~\E k \in API_TOKENS : k.token = tok) => api_auth_required(tok) = "401")
    /\ [][vars' = vars \/
          \A tok \in TokenInputs, tid \in TripIdInputs, d \in Dates, a \in Amounts :
             (~\E k \in API_TOKENS : k.token = tok) => ~api_expenses_create(tok, tid, d, a)]_vars

\* C30 witness: the token of a user that was deleted since, and an expense
\* stored for that user
TokenLifetimeWitness ==
    \E k \in API_TOKENS, e \in expenses :
        /\ ~\E u \in users : u.id = k.user_id
        /\ \E u \in deleted_users : u.id = k.user_id
        /\ e.user_id = k.user_id
        /\ api_auth_required(k.token) = "ok"
        /\ api_auth_required(0) = "401"

\* C23: snapshot consistency under concurrent writes - the totals a
\* calc_user_totals call returns are the totals of some single ledger state
\* that existed between the start and the end of the call.
SnapshotConsistency ==
    [][reader.pc = "q_dep" /\ reader'.pc = "idle" =>
          reader'.result[1] \in reader.seen]_vars

\* a step of a read: of calc_user_totals or the fetch_user_statement call
ReadStep ==
    \/ \E u \in users, rej \in BOOLEAN : calc_connect(u.id, rej)
    \/ calc_q_dep
    \/ calc_q_exp
    \/ \E u \in users, rej \in BOOLEAN : fetch_call(u.id, rej)

\* C24: read operations have no side effects - no step of calc_user_totals
\* or fetch_user_statement changes a user, trip, expense or deposit row, and
\* with no write in between a call returns what the ledger state determines,
\* so two consecutive calls with the same arguments return the same result.
ReadsHaveNoSideEffects ==
    /\ [][UNCHANGED <<ledger, deleted_users, API_TOKENS>> \/ ~ReadStep]_vars
    /\ [](reader.result # None /\ ~reader.wrote =>
             reader.result[1] = calc_user_totals(reader.user_id, None, None, reader.rej))
    /\ [](reader.rows # None =>
             /\ reader.rows[1] \in fetch_user_statement(reader.user_id, None, None, reader.rej)
             /\ Cardinality(RowsOfType(reader.rows[1], "Depósito"))
                   = Cardinality(UserDeposits(reader.user_id)))

\* C24 witness: a calc_user_totals call that returned non-zero totals of
\* both kinds with no write since it began
ReadsHaveNoSideEffectsWitness ==
    /\ reader.result # None
    /\ ~reader.wrote
    /\ reader.result[1].deposits # 0
    /\ reader.result[1].expenses # 0
    /\ \E e \in expenses : e.status = "rejeitado"

\* C25: concurrent status changes are last-write-wins and never half
\* applied - the status of an expense is the target of the UPDATE that
\* committed on it last, each UPDATE sets exactly its target on exactly its
\* row, and insertions beside it leave every stored row as it was.
LastWriteWins ==
    /\ [](last_commit # None =>
             \E e \in expenses : /\ e.id = last_commit[1].expense_id
                                 /\ e.status = last_commit[1].status)
    /\ [](\A e \in expenses : e.status \in Statuses)
    /\ [][setters' = setters \/
          \A r \in Slots :
             set_status_update(r) =>
                /\ \A e \in expenses :
                      IF e.id = setters[r].expense_id
                      THEN [id |-> e.id, trip_id |-> e.trip_id, user_id |-> e.user_id,
                            date |-> e.date, amount |-> e.amount,
                            status |-> setters[r].status] \in expenses'
                      ELSE e \in expenses'
                /\ Cardinality(expenses') = Cardinality(expenses)
                /\ deposits' = deposits]_vars
    /\ [][(\A d \in deposits : d \in deposits')
          /\ (\A e \in expenses : e \in expenses' \/ \E r \in Slots : set_status_update(r))]_vars

\* C25 witness: two status changes with different targets in flight on the
\* same stored expense, after an earlier UPDATE already committed on it
LastWriteWinsWitness ==
    /\ setters[1].pc = "update" /\ setters[2].pc = "update"
    /\ setters[1].expense_id = setters[2].expense_id
    /\ setters[1].status # setters[2].status
    /\ last_commit # None
    /\ last_commit[1].expense_id = setters[1].expense_id
    /\ last_commit[1].status \notin {setters[1].status, setters[2].status}
    /\ deposits # {}

\* C28: last-admin guard under interleaving - when two admin_delete_user
\* requests run concurrently, a user with role 'admin' still exists after
\* both completed.
LastAdminSurvivesInterleaving ==
    (\A r \in Slots : deleters[r].pc = "idle") => \E u \in users : u.role = "admin"

====
